---- MODULE Spec2Model ----
(***************************************************************************)
(* A model of bin/dfo.py: PackTree serialises a directory tree into a      *)
(* stream of blobs, _UnpackTree rebuilds a tree from such a stream and     *)
(* drives the Verifier.                                                    *)
(*                                                                         *)
(* Byte strings are sequences of tokens.  A token is either one character, *)
(* [c |-> "a"], or one sha1 hex digest, [h |-> blob]: forty hex digits     *)
(* taken as a unit.  A digest token is never a space or a line break, so   *)
(* the splits of the code never cut through it, and two digest tokens are  *)
(* equal only when the digested blobs are equal (sha1 is taken to be free  *)
(* of collisions).  The framing layer (tnet) is outside the model: a       *)
(* stream is the sequence of the blobs it frames.                          *)
(***************************************************************************)
EXTENDS Integers, Sequences, FiniteSets, TLC

(***************************************************************************)
(* Bounds of the model.                                                    *)
(***************************************************************************)
\* Largest number of nodes below the packed directory.
MaxNodes == 2

(***************************************************************************)
(* Byte strings.                                                           *)
(***************************************************************************)
C(ch) == [c |-> ch]

IsChar(t, ch) == t = C(ch)

\* Byte value of a character, the key of Python's comparison of str.
Ord(t) ==
  CASE t = C("\n") -> 10
    [] t = C("\r") -> 13
    [] t = C(" ") -> 32
    [] t = C("-") -> 45
    [] t = C(".") -> 46
    [] t = C("<") -> 60
    [] t = C(">") -> 62
    [] t = C("D") -> 68
    [] t = C("F") -> 70
    [] t = C("L") -> 76
    [] t = C("a") -> 97
    [] t = C("b") -> 98
    [] t = C("d") -> 100
    [] t = C("e") -> 101
    [] t = C("f") -> 102
    [] t = C("h") -> 104
    [] t = C("i") -> 105
    [] t = C("o") -> 111
    [] t = C("r") -> 114
    [] t = C("s") -> 115
    [] t = C("t") -> 116
    [] t = C("x") -> 120
    [] OTHER -> 48

\* s < t for Python byte strings: lexicographic on byte values.
RECURSIVE StrLess(_, _)
StrLess(s, t) ==
  IF t = <<>> THEN FALSE
  ELSE IF s = <<>> THEN TRUE
  ELSE IF Ord(Head(s)) # Ord(Head(t)) THEN Ord(Head(s)) < Ord(Head(t))
  ELSE StrLess(Tail(s), Tail(t))

\* hashlib.sha1(blob).hexdigest()
hexdigest(blob) == <<[h |-> blob]>>

\* Index of the first space of s at or after position i, 0 when there is none.
RECURSIVE FindSpace(_, _)
FindSpace(s, i) ==
  IF i > Len(s) THEN 0
  ELSE IF IsChar(s[i], " ") THEN i
  ELSE FindSpace(s, i + 1)

\* s.split(' ', n): the list of at most n + 1 fields.
RECURSIVE split(_, _)
split(s, n) ==
  LET i == FindSpace(s, 1)
  IN IF n = 0 \/ i = 0 THEN <<s>>
     ELSE <<SubSeq(s, 1, i - 1)>> \o split(SubSeq(s, i + 1, Len(s)), n - 1)

IsBreak(t) == IsChar(t, "\n") \/ IsChar(t, "\r")

\* Index of the first line break of s at or after position i, 0 when none.
RECURSIVE FindBreak(_, _)
FindBreak(s, i) ==
  IF i > Len(s) THEN 0
  ELSE IF IsBreak(s[i]) THEN i
  ELSE FindBreak(s, i + 1)

\* s.splitlines() of a Python 2 str: lines end at "\n", "\r" or "\r\n", the
\* breaks are dropped and there is no empty line after a final break.
RECURSIVE splitlines(_)
splitlines(s) ==
  IF s = <<>> THEN <<>>
  ELSE LET i == FindBreak(s, 1)
       IN IF i = 0 THEN <<s>>
          ELSE LET j == IF IsChar(s[i], "\r") /\ i < Len(s) /\ IsChar(s[i + 1], "\n")
                        THEN i + 1 ELSE i
               IN <<SubSeq(s, 1, i - 1)>> \o splitlines(SubSeq(s, j + 1, Len(s)))

\* sorted(names): insertion sort on the byte order.
RECURSIVE Insert(_, _)
Insert(n, s) ==
  IF s = <<>> THEN <<n>>
  ELSE IF StrLess(Head(s), n) THEN <<Head(s)>> \o Insert(n, Tail(s))
  ELSE <<n>> \o s

RECURSIVE sorted(_)
sorted(s) == IF s = <<>> THEN <<>> ELSE Insert(Head(s), sorted(Tail(s)))

(***************************************************************************)
(* The file system: a function from paths (sequences of names, from the    *)
(* directory the program is started in) to nodes.  A node has a kind ("F"  *)
(* regular file, "D" directory, "L" symlink), its data (file bytes or link *)
(* target) and its permission bits.                                        *)
(***************************************************************************)
S_IWUSR == "S_IWUSR"
S_IXUSR == "S_IXUSR"
S_IXGRP == "S_IXGRP"
S_IXOTH == "S_IXOTH"

PermBits == {S_IWUSR, S_IXUSR, S_IXGRP, S_IXOTH}

Node(kind, data, mode) == [kind |-> kind, data |-> data, mode |-> mode]

\* Modes of freshly created entries under the usual umask 022.
NewFileMode == {S_IWUSR}
NewDirMode == PermBits
LinkMode == PermBits

Exists(fs, p) == p \in DOMAIN fs

\* fs with node nd at path p.
Put(fs, p, nd) == [q \in DOMAIN fs \cup {p} |-> IF q = p THEN nd ELSE fs[q]]

\* The names the model's trees are made of: "a", "a b" and "a\rb".
NameSet == { <<C("a")>>, <<C("a"), C(" "), C("b")>>, <<C("a"), C("\r"), C("b")>> }

\* The orders in which os.listdir may return the entries of a directory.
ListOrders ==
  { o \in [1..Cardinality(NameSet) -> NameSet] : \A i, j \in DOMAIN o : i # j => o[i] # o[j] }

\* os.listdir(d): the names of the entries of d, in the order the system
\* happens to return them.
RECURSIVE ListFrom(_, _, _, _)
ListFrom(fs, d, order, i) ==
  IF i > Len(order) THEN <<>>
  ELSE IF Exists(fs, Append(d, order[i]))
       THEN <<order[i]>> \o ListFrom(fs, d, order, i + 1)
       ELSE ListFrom(fs, d, order, i + 1)

listdir(fs, d, order) == ListFrom(fs, d, order, 1)

(***************************************************************************)
(* Packing.                                                                *)
(***************************************************************************)
\* A writer that skips empty chunks.
_WriteChunkIfAny(outf, chunk) == IF chunk = <<>> THEN outf ELSE Append(outf, chunk)

_WriteChunk(outf, chunk) == Append(outf, chunk)

_WritePair(outf, cmd, name) == Append(outf, <<C(cmd), C(" ")>> \o name)

\* A packer that marks a file on any of its execute bits.
ExecFlagAnyBit(node_type, perms) ==
  IF node_type = "F" /\ perms \cap {S_IXUSR, S_IXGRP, S_IXOTH} # {} THEN "x" ELSE "-"

\* p of _PackTree: only the owner's execute bit of a regular file counts.
ExecFlag(node_type, perms) == IF node_type = "F" /\ S_IXUSR \in perms THEN "x" ELSE "-"

\* A packer that leaves the names out of the directory objects.
ManifestLineNoName(p, node_type, checksum, name) ==
  <<C(p), C(" "), C(node_type), C(" ")>> \o checksum \o <<C(" ")>>

\* A packer that takes the checksum of a node from its name.
ManifestLineOfName(p, node_type, checksum, name) ==
  <<C(p), C(" "), C(node_type), C(" ")>> \o hexdigest(name) \o <<C(" ")>> \o name

\* One line of a directory object, '%s %s %s %s' % (p, node_type, checksum, name).
ManifestLine(p, node_type, checksum, name) ==
  <<C(p), C(" "), C(node_type), C(" ")>> \o checksum \o <<C(" ")>> \o name

\* ''.join(['%s\n' % d for d in this_dir])
RECURSIVE JoinLines(_)
JoinLines(this_dir) ==
  IF this_dir = <<>> THEN <<>>
  ELSE Head(this_dir) \o <<C("\n")>> \o JoinLines(Tail(this_dir))

\* A packer that takes the entries as the system lists them.
UnsortedEntries(fs, full_dir, order) == listdir(fs, full_dir, order)

\* sorted(os.listdir(full_dir))
SortedEntries(fs, full_dir, order) == sorted(listdir(fs, full_dir, order))

\* _PackTree(prefix, dir, outf) returns [obj, count, outf]: the directory
\* object, the node count and the stream written so far.  PackLoop is the
\* body of its for loop from entry i on, acc its local state.
RECURSIVE _PackTree(_, _, _, _, _)
RECURSIVE PackLoop(_, _, _, _, _, _, _)
PackLoop(fs, prefix, dir, order, entries, i, acc) ==
  IF i > Len(entries) THEN acc
  ELSE
    LET name == entries[i]
        rel_path == Append(dir, name)
        path == prefix \o rel_path
        st == fs[path]
        \* each branch: the stream after it, obj, checksum (<<>> is None),
        \* this_count and node_type
        sym == [outf |-> _WriteChunk(_WritePair(acc.outf, "L", name), st.data),
                obj |-> st.data, checksum |-> <<>>,
                count |-> acc.count + 1, node_type |-> "L"]
        reg == [outf |-> _WriteChunk(_WritePair(acc.outf, "F", name), st.data),
                obj |-> <<>>, checksum |-> hexdigest(st.data),
                count |-> acc.count + 1, node_type |-> "F"]
        sub == _PackTree(fs, prefix, rel_path,
                         _WriteChunk(_WritePair(acc.outf, ">", name), <<>>), order)
        drc == [outf |-> _WriteChunk(_WritePair(sub.outf, "<", name), sub.obj),
                obj |-> sub.obj, checksum |-> <<>>,
                count |-> acc.count + sub.count + 1, node_type |-> "D"]
        r == IF st.kind = "L" THEN sym ELSE IF st.kind = "F" THEN reg ELSE drc
        checksum == IF r.checksum = <<>> THEN hexdigest(r.obj) ELSE r.checksum
        p == ExecFlag(r.node_type, st.mode)
        rec == ManifestLine(p, r.node_type, checksum, name)
    IN PackLoop(fs, prefix, dir, order, entries, i + 1,
                [outf |-> r.outf, this_dir |-> Append(acc.this_dir, rec),
                 count |-> r.count])

_PackTree(fs, prefix, dir, outf, order) ==
  LET entries == SortedEntries(fs, prefix \o dir, order)
      acc == PackLoop(fs, prefix, dir, order, entries, 1,
                      [outf |-> outf, this_dir |-> <<>>, count |-> 0])
  IN [obj |-> JoinLines(acc.this_dir), count |-> acc.count, outf |-> acc.outf]

Magic == <<C("d"), C("f"), C("o"), C("-"), C("-")>>

Dot == <<C(".")>>

\* PackTree(d, outf) on an empty outf: the stream written and the node count.
PackTree(fs, d, order) ==
  LET o1 == _WriteChunk(<<>>, Magic)
      o2 == _WriteChunk(_WritePair(o1, ">", Dot), <<>>)
      t == _PackTree(fs, d, <<>>, o2, order)
      o3 == _WriteChunk(_WritePair(t.outf, "<", Dot), t.obj)
      checksum == hexdigest(t.obj)
  IN [outf |-> _WriteChunk(o3, checksum), node_count |-> t.count, checksum |-> checksum]

(***************************************************************************)
(* File system calls of the unpacker.  Every call is made relative to the  *)
(* working directory cwd; each operator returns the errno ("" on success)  *)
(* and the file system after the call.                                     *)
(***************************************************************************)
DotDot == <<C("."), C(".")>>

Parent(p) == IF p = <<>> THEN <<>> ELSE SubSeq(p, 1, Len(p) - 1)

\* The path a non-empty name denotes in directory d, its last component not
\* followed.
Lookup(d, name) ==
  IF name = Dot THEN d ELSE IF name = DotDot THEN Parent(d) ELSE Append(d, name)

\* Follows the symlinks at path p: "found" with the path of a file or a
\* directory, "missing" with the path that does not exist, or "loop".
RECURSIVE Follow(_, _, _)
Follow(fs, p, fuel) ==
  IF ~Exists(fs, p) THEN [st |-> "missing", path |-> p]
  ELSE IF fs[p].kind # "L" THEN [st |-> "found", path |-> p]
  ELSE IF fuel = 0 THEN [st |-> "loop", path |-> p]
  ELSE Follow(fs, Lookup(Parent(p), fs[p].data), fuel - 1)

Resolve(fs, cwd, name) == Follow(fs, Lookup(cwd, name), Cardinality(DOMAIN fs))

\* os.mkdir(name)
mkdir(fs, cwd, name) ==
  IF name = <<>> THEN [errno |-> "ENOENT", fs |-> fs]
  ELSE IF Exists(fs, Lookup(cwd, name)) THEN [errno |-> "EEXIST", fs |-> fs]
  ELSE [errno |-> "", fs |-> Put(fs, Lookup(cwd, name), Node("D", <<>>, NewDirMode))]

\* _MakeOneDir(dir): os.mkdir, with EEXIST swallowed.
_MakeOneDir(fs, cwd, name) ==
  LET r == mkdir(fs, cwd, name)
  IN IF r.errno = "EEXIST" THEN [errno |-> "", fs |-> fs] ELSE r

\* os.chdir(name): the errno and the new working directory.
chdir(fs, cwd, name) ==
  IF name = <<>> THEN [errno |-> "ENOENT", cwd |-> cwd]
  ELSE LET r == Resolve(fs, cwd, name)
       IN IF r.st = "missing" THEN [errno |-> "ENOENT", cwd |-> cwd]
          ELSE IF r.st = "loop" THEN [errno |-> "ELOOP", cwd |-> cwd]
          ELSE IF fs[r.path].kind # "D" THEN [errno |-> "ENOTDIR", cwd |-> cwd]
          ELSE [errno |-> "", cwd |-> r.path]

\* with open(name, 'w') as f: f.write(contents)
WriteFile(fs, cwd, name, contents) ==
  IF name = <<>> THEN [errno |-> "ENOENT", fs |-> fs]
  ELSE LET r == Resolve(fs, cwd, name)
       IN IF r.st = "loop" THEN [errno |-> "ELOOP", fs |-> fs]
          ELSE IF r.st = "missing"
               THEN [errno |-> "", fs |-> Put(fs, r.path, Node("F", contents, NewFileMode))]
          ELSE IF fs[r.path].kind = "D" THEN [errno |-> "EISDIR", fs |-> fs]
          ELSE [errno |-> "", fs |-> [fs EXCEPT ![r.path].data = contents]]

\* A symlink call that replaces the entry that is there.
symlinkReplacing(fs, cwd, contents, name) ==
  IF contents = <<>> \/ name = <<>> THEN [errno |-> "ENOENT", fs |-> fs]
  ELSE [errno |-> "", fs |-> Put(fs, Lookup(cwd, name), Node("L", contents, LinkMode))]

\* os.symlink(contents, name)
symlink(fs, cwd, contents, name) ==
  IF contents = <<>> \/ name = <<>> THEN [errno |-> "ENOENT", fs |-> fs]
  ELSE IF Exists(fs, Lookup(cwd, name)) THEN [errno |-> "EEXIST", fs |-> fs]
  ELSE [errno |-> "", fs |-> Put(fs, Lookup(cwd, name), Node("L", contents, LinkMode))]

exec_mask == {S_IXUSR, S_IXGRP, S_IXOTH}

\* An unpacker that sets the mode to the execute bits alone.
AddExecBitsOnly(fs, cwd, name) ==
  IF name = <<>> \/ ~Exists(fs, Lookup(cwd, name)) THEN [errno |-> "ENOENT", fs |-> fs]
  ELSE LET r == Resolve(fs, cwd, name)
       IN IF r.st = "missing" THEN [errno |-> "ENOENT", fs |-> fs]
          ELSE IF r.st = "loop" THEN [errno |-> "ELOOP", fs |-> fs]
          ELSE [errno |-> "", fs |-> [fs EXCEPT ![r.path].mode = exec_mask]]

\* mode = os.lstat(name).st_mode; os.chmod(name, mode | exec_mask)
\* lstat reads the entry itself, chmod follows symlinks.
AddExecBits(fs, cwd, name) ==
  IF name = <<>> \/ ~Exists(fs, Lookup(cwd, name)) THEN [errno |-> "ENOENT", fs |-> fs]
  ELSE LET mode == fs[Lookup(cwd, name)].mode
           r == Resolve(fs, cwd, name)
       IN IF r.st = "missing" THEN [errno |-> "ENOENT", fs |-> fs]
          ELSE IF r.st = "loop" THEN [errno |-> "ELOOP", fs |-> fs]
          ELSE [errno |-> "", fs |-> [fs EXCEPT ![r.path].mode = mode \cup exec_mask]]

(***************************************************************************)
(* The Verifier.  v.current is None (current_is_None) or a list of (name,  *)
(* checksum) pairs; while the stack is not empty it is the very list on    *)
(* top of the stack, so an append to it shows there too.                   *)
(***************************************************************************)
Verifier == [current_is_None |-> TRUE, current |-> <<>>, stack |-> <<>>]

\* A verifier that starts a new list without putting it on its stack.
PushUnstacked(v) == [current_is_None |-> FALSE, current |-> <<>>, stack |-> v.stack]

\* self.current = []; self.stack.append(self.current)
Push(v) == [current_is_None |-> FALSE, current |-> <<>>, stack |-> Append(v.stack, <<>>)]

\* The for loop of Pop from line i on.  acc: expected, fs and err, the error
\* that ended the loop ("" when none).
RECURSIVE PopLines(_, _, _, _)
PopLines(lines, i, cwd, acc) ==
  IF i > Len(lines) \/ acc.err # "" THEN acc
  ELSE
    LET fields == split(lines[i], 3)
    IN IF Len(fields) # 4 THEN [acc EXCEPT !.err = "Invalid directory entry"]
       ELSE
         LET exec_bit == fields[1]
             expected_checksum == fields[3]
             name == fields[4]
             expected == Append(acc.expected, <<name, expected_checksum>>)
         IN IF exec_bit = <<C("x")>>
            THEN LET r == AddExecBits(acc.fs, cwd, name)
                 IN PopLines(lines, i + 1, cwd,
                             [expected |-> expected, fs |-> r.fs,
                              err |-> IF r.errno = "" THEN "" ELSE "OSError"])
            ELSE IF exec_bit = <<C("-")>>
            THEN PopLines(lines, i + 1, cwd, [acc EXCEPT !.expected = expected])
            ELSE [acc EXCEPT !.expected = expected, !.err = "Invalid exec bit"]

\* A verifier that only asks for the same entries, in any order.
ListsEqualAsSets(expected, v) ==
  /\ ~v.current_is_None
  /\ { expected[i] : i \in 1..Len(expected) } = { v.current[i] : i \in 1..Len(v.current) }

\* A verifier that only asks for the same names in the same order.
ListsEqualByName(expected, v) ==
  /\ ~v.current_is_None
  /\ [i \in DOMAIN expected |-> expected[i][1]] = [i \in DOMAIN v.current |-> v.current[i][1]]

\* expected == actual of Pop.
ListsEqual(expected, v) == ~v.current_is_None /\ expected = v.current

\* Verifier.Pop(dir_obj): the verifier and the file system after it, and
\* the error it raised ("" when it returned).
Pop(v, fs, cwd, dir_obj) ==
  LET r == PopLines(splitlines(dir_obj), 1, cwd, [expected |-> <<>>, fs |-> fs, err |-> ""])
  IN IF r.err # "" THEN [v |-> v, fs |-> r.fs, err |-> r.err]
     ELSE IF ~ListsEqual(r.expected, v)
     THEN [v |-> v, fs |-> r.fs, err |-> "Stream integrity error"]
     ELSE IF v.stack = <<>> THEN [v |-> v, fs |-> r.fs, err |-> "IndexError"]
     ELSE LET stack == SubSeq(v.stack, 1, Len(v.stack) - 1)
          IN [v |-> [v EXCEPT !.stack = stack,
                              !.current = IF stack # <<>> THEN stack[Len(stack)] ELSE @],
              fs |-> r.fs, err |-> ""]

\* Verifier.OnEntry(name, actual_checksum); None has no append.
OnEntry(v, name, actual_checksum) ==
  IF v.current_is_None THEN [v |-> v, err |-> "AttributeError"]
  ELSE LET current == Append(v.current, <<name, actual_checksum>>)
       IN [v |-> [v EXCEPT !.current = current,
                           !.stack = IF @ # <<>> THEN [@ EXCEPT ![Len(@)] = current] ELSE @],
           err |-> ""]

(***************************************************************************)
(* Unpacking.  u holds the locals of _UnpackTree: pc (where it stands),    *)
(* pos (blobs read from in_file), level, v (the Verifier), cwd (the        *)
(* working directory of the process), outcome ("" while running, "ok" when *)
(* the root checksum was printed, else the error raised) and printed.      *)
(***************************************************************************)
SrcDir == <<C("s"), C("r"), C("c")>>

DestDir == <<C("d"), C("s"), C("t")>>

Idle == [pc |-> "idle", pos |-> 0, level |-> 0, v |-> Verifier, cwd |-> <<>>,
         outcome |-> "", printed |-> <<>>]

Raise(fs, u, err) == [fs |-> fs, u |-> [u EXCEPT !.pc = "done", !.outcome = err]]

AtEOF(u, in_file) == u.pos >= Len(in_file)

\* _UnpackTree up to its while loop.
Begin(fs, in_file) ==
  LET u0 == [Idle EXCEPT !.pc = "loop"]
      m == _MakeOneDir(fs, u0.cwd, DestDir)
      cd == chdir(m.fs, u0.cwd, DestDir)
      u1 == [u0 EXCEPT !.cwd = cd.cwd]
  IN IF m.errno # "" \/ cd.errno # "" THEN Raise(m.fs, u1, "OSError")
     ELSE IF AtEOF(u1, in_file) THEN Raise(m.fs, u1, "Expected DFO header, got EOF")
     ELSE IF in_file[1] # Magic
          THEN Raise(m.fs, [u1 EXCEPT !.pos = 1], "Expected 'dfo--' header")
     ELSE [fs |-> m.fs, u |-> [u1 EXCEPT !.pos = 1]]

\* if command == '>'
OnPush(fs, u, name) ==
  LET m == IF name # Dot THEN _MakeOneDir(fs, u.cwd, name) ELSE [errno |-> "", fs |-> fs]
      cd == IF name # Dot /\ m.errno = "" THEN chdir(m.fs, u.cwd, name)
            ELSE [errno |-> "", cwd |-> u.cwd]
  IN IF m.errno # "" \/ cd.errno # "" THEN Raise(m.fs, u, "OSError")
     ELSE [fs |-> m.fs,
           u |-> [u EXCEPT !.cwd = cd.cwd, !.v = Push(u.v), !.level = u.level + 1]]

\* elif command == '<'
OnPop(fs, u, name, contents, actual_checksum) ==
  LET r == Pop(u.v, fs, u.cwd, contents)
      e == OnEntry(r.v, name, actual_checksum)
      level == u.level - 1
      u1 == [u EXCEPT !.v = e.v, !.level = level]
      cd == chdir(r.fs, u.cwd, DotDot)
  IN IF r.err # "" THEN Raise(r.fs, u, r.err)
     ELSE IF e.err # "" THEN Raise(r.fs, u, e.err)
     ELSE IF level = 0 THEN [fs |-> r.fs, u |-> [u1 EXCEPT !.pc = "trailer"]]
     ELSE IF name # Dot
          THEN IF cd.errno # "" THEN Raise(r.fs, u1, "OSError")
               ELSE [fs |-> r.fs, u |-> [u1 EXCEPT !.cwd = cd.cwd]]
     ELSE [fs |-> r.fs, u |-> u1]

\* elif command == 'F'
OnFile(fs, u, name, contents, actual_checksum) ==
  LET w == WriteFile(fs, u.cwd, name, contents)
      e == OnEntry(u.v, name, actual_checksum)
  IN IF w.errno # "" THEN Raise(w.fs, u, "IOError")
     ELSE IF e.err # "" THEN Raise(w.fs, u, e.err)
     ELSE [fs |-> w.fs, u |-> [u EXCEPT !.v = e.v]]

\* elif command == 'L'
OnLink(fs, u, name, contents, actual_checksum) ==
  LET l == symlink(fs, u.cwd, contents, name)
      e == OnEntry(u.v, name, actual_checksum)
  IN IF l.errno \notin {"", "EEXIST"} THEN Raise(l.fs, u, "Error making symlink")
     ELSE IF e.err # "" THEN Raise(l.fs, u, e.err)
     ELSE [fs |-> l.fs, u |-> [u EXCEPT !.v = e.v]]

\* What one pass of the while loop meets: "EOF" (no op record), "op" (an op
\* record without a space), "contents" (no data blob) or the command.
Meets(u, in_file) ==
  IF AtEOF(u, in_file) THEN "EOF"
  ELSE LET fields == split(in_file[u.pos + 1], 1)
       IN IF Len(fields) # 2 THEN "op"
          ELSE IF u.pos + 1 >= Len(in_file) THEN "contents"
          ELSE IF fields[1] \in {<<C(">")>>, <<C("<")>>, <<C("F")>>, <<C("L")>>}
               THEN fields[1][1].c
          ELSE "command"

\* An unpacker that reads the data blob before it splits the op record.
InvalidOpAfterContents(fs, u) ==
  Raise(fs, [u EXCEPT !.pos = u.pos + 2], "Invalid op record")

\* except ValueError: raise RuntimeError('Invalid op record %r' % op)
InvalidOp(fs, u) == Raise(fs, [u EXCEPT !.pos = u.pos + 1], "Invalid op record")

\* One pass of the while loop.
Iterate(fs, u, in_file) ==
  LET meets == Meets(u, in_file)
      fields == split(in_file[u.pos + 1], 1)
      name == fields[2]
      contents == in_file[u.pos + 2]
      actual_checksum == hexdigest(contents)
      u2 == [u EXCEPT !.pos = u.pos + 2]
  IN CASE meets = "EOF" -> [fs |-> fs, u |-> [u EXCEPT !.pc = "trailer"]]
       [] meets = "op" -> InvalidOp(fs, u)
       [] meets = "contents" ->
            Raise(fs, [u EXCEPT !.pos = u.pos + 1], "Expected contents, got EOF")
       [] meets = ">" -> OnPush(fs, u2, name)
       [] meets = "<" -> OnPop(fs, u2, name, contents, actual_checksum)
       [] meets = "F" -> OnFile(fs, u2, name, contents, actual_checksum)
       [] meets = "L" -> OnLink(fs, u2, name, contents, actual_checksum)
       [] OTHER -> Raise(fs, u2, "Invalid command")

\* An unpacker that checks the trailer against the checksum of the root
\* directory it recorded at the last pop.
TrailerChecked(fs, u, in_file) ==
  IF AtEOF(u, in_file) THEN Raise(fs, u, "Expected root checksum, got EOF")
  ELSE IF u.v.current # <<>> /\ in_file[u.pos + 1] # u.v.current[Len(u.v.current)][2]
       THEN Raise(fs, [u EXCEPT !.pos = u.pos + 1], "Stream integrity error")
  ELSE [fs |-> fs,
        u |-> [u EXCEPT !.pos = u.pos + 1, !.pc = "done", !.outcome = "ok",
                        !.printed = in_file[u.pos + 1]]]

\* An unpacker that takes the last blob of its input for the trailer.
TrailerAtEnd(fs, u, in_file) ==
  IF AtEOF(u, in_file) THEN Raise(fs, u, "Expected root checksum, got EOF")
  ELSE [fs |-> fs,
        u |-> [u EXCEPT !.pos = Len(in_file), !.pc = "done", !.outcome = "ok",
                        !.printed = in_file[Len(in_file)]]]

\* An unpacker for which the trailer is optional: at the end of its input it
\* prints the checksum it recorded last.
TrailerOptional(fs, u, in_file) ==
  IF AtEOF(u, in_file)
  THEN [fs |-> fs, u |-> [u EXCEPT !.pc = "done", !.outcome = "ok"]]
  ELSE [fs |-> fs,
        u |-> [u EXCEPT !.pos = u.pos + 1, !.pc = "done", !.outcome = "ok",
                        !.printed = in_file[u.pos + 1]]]

\* After the loop: read and print the root checksum.
Trailer(fs, u, in_file) ==
  IF AtEOF(u, in_file) THEN Raise(fs, u, "Expected root checksum, got EOF")
  ELSE [fs |-> fs,
        u |-> [u EXCEPT !.pos = u.pos + 1, !.pc = "done", !.outcome = "ok",
                        !.printed = in_file[u.pos + 1]]]

\* _UnpackTree(in_file, DestDir) run to its end from file system fs.
RECURSIVE RunFrom(_, _)
RunFrom(m, in_file) ==
  IF m.u.pc = "done" THEN m
  ELSE IF m.u.pc = "loop" THEN RunFrom(Iterate(m.fs, m.u, in_file), in_file)
  ELSE RunFrom(Trailer(m.fs, m.u, in_file), in_file)

_UnpackTree(fs, in_file) == RunFrom(Begin(fs, in_file), in_file)

(***************************************************************************)
(* The environment: the tree that is packed, the edits made to it between  *)
(* two runs of pack, and what happens to the stream on its way to unpack.  *)
(***************************************************************************)
FileContents == { <<C("h"), C("i"), C("\n")>> }

EditContents == FileContents \cup { <<>> }

FileModes == { NewFileMode, NewFileMode \cup exec_mask }

LinkTargets == { <<C("a")>> }

EditTargets == LinkTargets \cup { <<C("b")>> }

\* Tokens a tampered blob may carry in place of one of its own.
TamperTokens == { C("x") }

\* Blobs that may follow the trailer.
ExtraBlobs == { <<C("<"), C(" "), C(".")>>, <<>> }

IsPrefix(p, q) == Len(p) <= Len(q) /\ SubSeq(q, 1, Len(p)) = p

\* The paths of the packed directory and of everything below it.
TreePaths(fs, root) == { p \in DOMAIN fs : IsPrefix(root, p) }

NodeCount(fs, root) == Cardinality(TreePaths(fs, root)) - 1

DirsOf(fs, root) == { p \in TreePaths(fs, root) : fs[p].kind = "D" }

\* fs after rename(p, q): the node at p and all below it move to q.
Renamed(fs, p, q) ==
  LET to(r) == IF IsPrefix(p, r) THEN q \o SubSeq(r, Len(p) + 1, Len(r)) ELSE r
  IN [r \in { to(r0) : r0 \in DOMAIN fs } |-> fs[CHOOSE r0 \in DOMAIN fs : to(r0) = r]]

\* blob with its token i replaced by t, and with its token i removed.
Subst(blob, i, t) == [blob EXCEPT ![i] = t]

Delete(blob, i) == SubSeq(blob, 1, i - 1) \o SubSeq(blob, i + 1, Len(blob))

\* The lines of a directory object as the packer wrote them, each up to its
\* "\n", from position i on; cur is the line being read.
RECURSIVE WrittenLines(_, _, _)
WrittenLines(blob, i, cur) ==
  IF i > Len(blob) THEN IF cur = <<>> THEN <<>> ELSE <<cur>>
  ELSE IF IsChar(blob[i], "\n") THEN <<cur>> \o WrittenLines(blob, i + 1, <<>>)
  ELSE WrittenLines(blob, i + 1, Append(cur, blob[i]))

\* lines with lines i and i + 1 exchanged.
SwapLines(lines, i) == [lines EXCEPT ![i] = lines[i + 1], ![i + 1] = lines[i]]

\* The directory objects that hold the lines of blob in another order.
Reorderings(blob) ==
  LET lines == WrittenLines(blob, 1, <<>>)
  IN { JoinLines(SwapLines(lines, i)) : i \in 1..(Len(lines) - 1) } \ {blob}

\* The blobs that may take the place of blob.
Variants(blob) ==
  ({ Subst(blob, i, t) : i \in 1..Len(blob), t \in TamperTokens }
     \cup { Delete(blob, i) : i \in 1..Len(blob) }
     \cup Reorderings(blob)) \ {blob}

NoEdit == [kind |-> "none", path |-> <<>>, bit |-> ""]

NoTamper == [kind |-> "none", idx |-> 0]

VARIABLES
  fs,       \* the file system
  phase,    \* "build", "packed", "edited", "repacked", "fed", "unpack"
  stream,   \* the blobs written by the last run of pack
  prev,     \* the blobs written by the run of pack before the last edit
  edit,     \* the edit made to the tree since that run
  in_file,  \* the blobs unpack reads
  tamper,   \* what was done to the stream to obtain in_file
  u         \* the locals of _UnpackTree

vars == <<fs, phase, stream, prev, edit, in_file, tamper, u>>

Src == <<SrcDir>>

Init ==
  /\ fs = (<<>> :> Node("D", <<>>, NewDirMode)) @@ (Src :> Node("D", <<>>, NewDirMode))
  /\ phase = "build"
  /\ stream = <<>>
  /\ prev = <<>>
  /\ edit = NoEdit
  /\ in_file = <<>>
  /\ tamper = NoTamper
  /\ u = Idle

Growing == phase = "build" /\ NodeCount(fs, Src) < MaxNodes

\* The tree grows by a regular file, a symlink or a directory.
MakeFile ==
  /\ Growing
  /\ \E d \in DirsOf(fs, Src), name \in NameSet, contents \in FileContents, mode \in FileModes :
    /\ ~Exists(fs, Append(d, name))
    /\ fs' = Put(fs, Append(d, name), Node("F", contents, mode))
    /\ UNCHANGED <<phase, stream, prev, edit, in_file, tamper, u>>

MakeLink ==
  /\ Growing
  /\ \E d \in DirsOf(fs, Src), name \in NameSet, target \in LinkTargets :
    /\ ~Exists(fs, Append(d, name))
    /\ fs' = Put(fs, Append(d, name), Node("L", target, LinkMode))
    /\ UNCHANGED <<phase, stream, prev, edit, in_file, tamper, u>>

MakeDir ==
  /\ Growing
  /\ \E d \in DirsOf(fs, Src), name \in NameSet :
    /\ ~Exists(fs, Append(d, name))
    /\ fs' = Put(fs, Append(d, name), Node("D", <<>>, NewDirMode))
    /\ UNCHANGED <<phase, stream, prev, edit, in_file, tamper, u>>

\* dfo pack src: the first run, and the run after an edit.
Pack ==
  /\ phase \in {"build", "edited"}
  /\ \E order \in ListOrders : stream' = PackTree(fs, Src, order).outf
  /\ prev' = IF phase = "edited" THEN stream ELSE prev
  /\ phase' = IF phase = "build" THEN "packed" ELSE "repacked"
  /\ UNCHANGED <<fs, edit, in_file, tamper, u>>

\* Between two runs of pack: nothing changes, or one file's contents, one
\* symlink's target, one node's name or one permission bit does.
Edited(newfs, e) ==
  /\ fs' = newfs
  /\ edit' = e
  /\ phase' = "edited"
  /\ UNCHANGED <<stream, prev, in_file, tamper, u>>

LeaveAlone == phase = "packed" /\ Edited(fs, NoEdit)

EditFile ==
  /\ phase = "packed"
  /\ \E p \in TreePaths(fs, Src), contents \in EditContents :
    /\ fs[p].kind = "F" /\ fs[p].data # contents
    /\ Edited([fs EXCEPT ![p].data = contents], [kind |-> "contents", path |-> p, bit |-> ""])

EditTarget ==
  /\ phase = "packed"
  /\ \E p \in TreePaths(fs, Src), target \in EditTargets :
    /\ fs[p].kind = "L" /\ fs[p].data # target
    /\ Edited([fs EXCEPT ![p].data = target], [kind |-> "target", path |-> p, bit |-> ""])

EditName ==
  /\ phase = "packed"
  /\ \E p \in TreePaths(fs, Src) \ {Src}, name \in NameSet :
    /\ ~Exists(fs, Append(Parent(p), name))
    /\ Edited(Renamed(fs, p, Append(Parent(p), name)),
              [kind |-> "name", path |-> p, bit |-> ""])

\* chmod of one bit of a file or a directory; the owner keeps the right to
\* search the directories, without which pack could not read the tree.
EditMode ==
  /\ phase = "packed"
  /\ \E p \in TreePaths(fs, Src), bit \in PermBits :
    /\ fs[p].kind \in {"F", "D"}
    /\ ~(fs[p].kind = "D" /\ bit = S_IXUSR)
    /\ Edited([fs EXCEPT ![p].mode = IF bit \in @ THEN @ \ {bit} ELSE @ \cup {bit}],
              [kind |-> "mode", path |-> p, bit |-> bit])

\* The stream reaches unpack as it was written, with one blob replaced, cut
\* short, or with blobs after its trailer.
Fed(blobs, t) ==
  /\ in_file' = blobs
  /\ tamper' = t
  /\ phase' = "fed"
  /\ UNCHANGED <<fs, stream, prev, edit, u>>

FeedIntact == phase = "packed" /\ Fed(stream, NoTamper)

FeedReplaced ==
  /\ phase = "packed"
  /\ \E i \in 1..Len(stream) : \E blob \in Variants(stream[i]) :
    Fed([stream EXCEPT ![i] = blob], [kind |-> "replace", idx |-> i])

FeedTruncated ==
  /\ phase = "packed"
  /\ \E k \in 0..(Len(stream) - 1) :
    Fed(SubSeq(stream, 1, k), [kind |-> "truncate", idx |-> k])

FeedExtended ==
  /\ phase = "packed"
  /\ \E blob \in ExtraBlobs :
    Fed(Append(stream, blob), [kind |-> "extend", idx |-> Len(stream) + 1])

\* dfo unpack dst < in_file
Took(m) ==
  /\ fs' = m.fs
  /\ u' = m.u
  /\ phase' = "unpack"
  /\ UNCHANGED <<stream, prev, edit, in_file, tamper>>

UnpackBegin == phase = "fed" /\ Took(Begin(fs, in_file))

InLoop(meets) ==
  /\ phase = "unpack" /\ u.pc = "loop"
  /\ Meets(u, in_file) = meets
  /\ Took(Iterate(fs, u, in_file))

LoopEOF == InLoop("EOF")

LoopBadOp == InLoop("op")

LoopNoContents == InLoop("contents")

LoopPush == InLoop(">")

LoopPop == InLoop("<")

LoopFile == InLoop("F")

LoopLink == InLoop("L")

LoopBadCommand == InLoop("command")

ReadTrailer == phase = "unpack" /\ u.pc = "trailer" /\ Took(Trailer(fs, u, in_file))

Next ==
  \/ MakeFile \/ MakeLink \/ MakeDir
  \/ Pack
  \/ LeaveAlone \/ EditFile \/ EditTarget \/ EditName \/ EditMode
  \/ FeedIntact \/ FeedReplaced \/ FeedTruncated \/ FeedExtended
  \/ UnpackBegin
  \/ LoopEOF \/ LoopBadOp \/ LoopNoContents
  \/ LoopPush \/ LoopPop \/ LoopFile \/ LoopLink \/ LoopBadCommand
  \/ ReadTrailer

Spec == Init /\ [][Next]_vars

\* pack, edit, pack again: the runs of the packer alone.
PackNext ==
  \/ MakeFile \/ MakeLink \/ MakeDir
  \/ Pack
  \/ LeaveAlone \/ EditFile \/ EditTarget \/ EditName \/ EditMode

SpecPack == Init /\ [][PackNext]_vars

(***************************************************************************)
(* Properties.                                                             *)
(***************************************************************************)
Dest == <<DestDir>>

\* What the format tracks of the tree below root: for every path relative
\* to root the kind of the node, its contents or target, and for a regular
\* file whether its owner may execute it.
TreeView(f, root) ==
  [p \in { SubSeq(q, Len(root) + 1, Len(q)) : q \in TreePaths(f, root) \ {root} } |->
     LET n == f[root \o p]
     IN [kind |-> n.kind, data |-> n.data, ux |-> n.kind = "F" /\ S_IXUSR \in n.mode]]

Finished == phase = "unpack" /\ u.pc = "done"

Succeeded == Finished /\ u.outcome = "ok"

\* C1: unpacking the stream packed from a tree of files, directories and
\* symlinks succeeds and leaves in the destination a tree with the same
\* structure, names, kinds, contents, targets and owner-executable flags.
RoundTrip ==
  (Finished /\ tamper.kind = "none") =>
     (u.outcome = "ok" /\ TreeView(fs, Dest) = TreeView(fs, Src))

\* The trees whose names hold no line break of splitlines.
PlainNames(f, root) ==
  \A p \in TreePaths(f, root) \ {root} : \A i \in 1..Len(p[Len(p)]) : ~IsBreak(p[Len(p)][i])

RoundTripPlain ==
  (Finished /\ tamper.kind = "none" /\ PlainNames(fs, Src)) =>
     (u.outcome = "ok" /\ TreeView(fs, Dest) = TreeView(fs, Src))

\* The name of an op record written by the packer.
OpName(op) == SubSeq(op, 3, Len(op))

\* blob is the lines of the children kids, one after the other, each with
\* an exec field, the child's type, checksum and name, and a final "\n".
RECURSIVE HoldsLines(_, _)
HoldsLines(blob, kids) ==
  IF kids = <<>> THEN blob = <<>>
  ELSE \E e \in {"x", "-"} :
         LET k == Head(kids)
             line == <<C(e), C(" "), C(k.type), C(" ")>> \o k.sum \o <<C(" ")>> \o k.name
                       \o <<C("\n")>>
         IN /\ IsPrefix(line, blob)
            /\ HoldsLines(SubSeq(blob, Len(line) + 1, Len(blob)), Tail(kids))

InNameOrder(kids) == \A k \in 1..(Len(kids) - 1) : StrLess(kids[k].name, kids[k + 1].name)

\* Reads the stream s from the op record at i on.  open holds, for every
\* directory not yet closed, the children met so far with the digest of the
\* data blob of each; closed is the data blob of the last '<' record.
RECURSIVE Composed(_, _, _, _)
Composed(s, i, open, closed) ==
  IF i >= Len(s) THEN i = Len(s) /\ open = <<>> /\ s[i] = hexdigest(closed)
  ELSE
    LET cmd == s[i][1]
        name == OpName(s[i])
        data == s[i + 1]
        kid(type) == [type |-> type, name |-> name, sum |-> hexdigest(data)]
        top == open[Len(open)]
        rest == SubSeq(open, 1, Len(open) - 1)
        into(l, k) == [l EXCEPT ![Len(l)] = Append(@, k)]
    IN CASE cmd = C(">") -> data = <<>> /\ Composed(s, i + 2, Append(open, <<>>), closed)
         [] cmd \in {C("F"), C("L")} ->
              open # <<>> /\ Composed(s, i + 2, into(open, kid(cmd.c)), closed)
         [] cmd = C("<") ->
              /\ open # <<>>
              /\ HoldsLines(data, top)
              /\ InNameOrder(top)
              /\ IF rest = <<>> THEN name = Dot /\ Composed(s, i + 2, rest, data)
                 ELSE Composed(s, i + 2, into(rest, kid("D")), closed)
         [] OTHER -> FALSE

\* C2: in the stream pack writes, the checksum of every manifest line is the
\* digest of the data blob written for that node, every manifest is the
\* lines of the direct children in the order of their names, and the trailer
\* is the digest of the data blob of the final '< .' record; for an empty
\* directory the trailer is the digest of the empty string.
ChecksumComposition ==
  phase = "packed" =>
    /\ stream[1] = Magic
    /\ Composed(stream, 2, <<>>, <<>>)
    /\ NodeCount(fs, Src) = 0 => stream[Len(stream)] = hexdigest(<<>>)

\* A packed tree with a file or symlink inside a directory below the root.
ChecksumCompositionWitness ==
  /\ phase = "packed"
  /\ \E q \in TreePaths(fs, Src) : Len(q) = 3 /\ fs[q].kind # "D"

\* The lines of a manifest all have four fields and an exec field x or -.
WellFormed(blob) ==
  \A i \in 1..Len(splitlines(blob)) :
    LET fields == split(splitlines(blob)[i], 3)
    IN Len(fields) = 4 /\ fields[1] \in { <<C("x")>>, <<C("-")>> }

\* The (name, checksum) pairs of the lines of a well formed manifest.
RECURSIVE PairsOf(_)
PairsOf(lines) ==
  IF lines = <<>> THEN <<>>
  ELSE <<<<split(Head(lines), 3)[4], split(Head(lines), 3)[3]>>>> \o PairsOf(Tail(lines))

\* The step of the loop that handles a '<' record.
PopStep == phase = "unpack" /\ u.pc = "loop" /\ Meets(u, in_file) = "<" /\ u' # u

\* blob i of the stream is the data blob of a record with command cmd.
IsDataOf(s, i, cmd) == i > 2 /\ i < Len(s) /\ i % 2 = 1 /\ s[i - 1][1] = C(cmd)

\* in_file is the stream with the lines of one manifest in another order.
Reordered ==
  /\ tamper.kind = "replace"
  /\ IsDataOf(stream, tamper.idx, "<")
  /\ in_file[tamper.idx] \in Reorderings(stream[tamper.idx])

\* C3: a '<' record is passed only when the (name, checksum) pairs of its
\* manifest are, one by one and in the same order, the pairs collected for
\* the directory; unequal lists end the run with the integrity error (when
\* no chmod of the manifest failed before), and a manifest whose lines were
\* reordered is never followed by success.
PopComparesLists ==
  /\ [][PopStep =>
          LET blob == in_file[u.pos + 2]
              same == /\ WellFormed(blob)
                      /\ ~u.v.current_is_None
                      /\ PairsOf(splitlines(blob)) = u.v.current
          IN /\ u'.pc # "done" => same
             /\ (WellFormed(blob) /\ ~same /\ u'.outcome # "OSError")
                   => u'.outcome = "Stream integrity error"]_vars
  /\ []((Finished /\ Reordered) =>
          /\ u.outcome # "ok"
          /\ PlainNames(fs, Src) => u.outcome = "Stream integrity error")

\* A run that was stopped by a manifest with its lines in another order.
PopComparesListsWitness ==
  Finished /\ Reordered /\ u.outcome = "Stream integrity error"

\* in_file is the stream with the data blob of one 'F', 'L' or '<' record
\* replaced by other bytes.
DataReplaced ==
  /\ tamper.kind = "replace"
  /\ \E cmd \in {"F", "L", "<"} : IsDataOf(stream, tamper.idx, cmd)

\* C4: replacing one data blob of the packed stream (a file's contents, a
\* symlink's target or the manifest of a directory, the root's included)
\* makes unpack fail.
TamperDetected == (Finished /\ DataReplaced) => u.outcome # "ok"

\* The same for every data blob but the manifest of the final '< .' record.
InnerTamperDetected ==
  (Finished /\ DataReplaced /\ tamper.idx # Len(stream) - 1) => u.outcome # "ok"

\* A replaced root manifest is passed only if it has the pairs of the
\* original one.
RootTamperPassed ==
  (Finished /\ DataReplaced /\ tamper.idx = Len(stream) - 1 /\ u.outcome = "ok") =>
     /\ WellFormed(in_file[tamper.idx])
     /\ PairsOf(splitlines(in_file[tamper.idx])) = PairsOf(splitlines(stream[tamper.idx]))

\* The root checksum a stream ends with.
RootChecksum(s) == s[Len(s)]

\* C5: two trees that differ in the contents of one file, the target of one
\* symlink or the name of one node are packed to different root checksums.
ContentAndNameSensitive ==
  (phase = "repacked" /\ edit.kind \in {"contents", "target", "name"}) =>
     RootChecksum(stream) # RootChecksum(prev)

\* A tree packed again after a node inside a directory below the root got
\* another name.
ContentAndNameSensitiveWitness ==
  phase = "repacked" /\ edit.kind = "name" /\ Len(edit.path) = 3

\* C6: flipping any permission bit of any node changes the root checksum.
AnyPermBitSensitive ==
  (phase = "repacked" /\ edit.kind = "mode") => RootChecksum(stream) # RootChecksum(prev)

\* C6 as amended: flipping the owner's execute bit of a regular file changes
\* the root checksum; flipping any other permission bit of a file or of a
\* directory leaves the whole stream as it was.
ExecBitSensitive ==
  (phase = "repacked" /\ edit.kind = "mode") =>
     IF fs[edit.path].kind = "F" /\ edit.bit = S_IXUSR
     THEN RootChecksum(stream) # RootChecksum(prev)
     ELSE stream = prev

\* A tree packed again after the owner's execute bit of a file inside a
\* directory below the root was flipped.
ExecBitSensitiveWitness ==
  /\ phase = "repacked" /\ edit.kind = "mode" /\ edit.bit = S_IXUSR
  /\ fs[edit.path].kind = "F" /\ Len(edit.path) = 3

\* C7: pack run twice on the same tree writes the same blobs, whatever the
\* order in which the directories are listed in each run.
Deterministic == (phase = "repacked" /\ edit.kind = "none") => stream = prev

\* An unchanged tree with two entries in its root, packed twice.
DeterministicWitness ==
  /\ phase = "repacked" /\ edit.kind = "none"
  /\ Cardinality({ q \in TreePaths(fs, Src) : Len(q) = 2 }) = 2

Before(f) == [p \in { q \in DOMAIN f : ~IsPrefix(Dest, q) } |-> f[p]]

\* The run of unpack on the stream as pack wrote it.
Intact == _UnpackTree(Before(fs), stream)

\* The checksum of the root directory recorded at the last pop.
RootAtLastPop == u.v.current[Len(u.v.current)][2]

\* in_file is the stream with another trailer.
TrailerAltered == tamper.kind = "replace" /\ tamper.idx = Len(stream)

\* C9: unpack compares the trailer with nothing: on a stream that is valid
\* but for its trailer it succeeds, leaves the tree that the unaltered
\* stream leaves, and prints the altered trailer, which is not the root
\* checksum it computed at the last pop.
TrailerIndependent ==
  (Finished /\ TrailerAltered /\ Intact.u.outcome = "ok") =>
     /\ u.outcome = "ok"
     /\ fs = Intact.fs
     /\ u.printed = in_file[Len(in_file)]
     /\ u.printed # Intact.u.printed
     /\ u.printed # RootAtLastPop

\* A finished run on the stream of a tree that is not empty, with another
\* trailer.
TrailerIndependentWitness ==
  Succeeded /\ TrailerAltered /\ NodeCount(fs, Src) > 0

\* The depth after the op records of s up to blob k: pushes less pops.
RECURSIVE Depth(_, _)
Depth(s, k) ==
  IF k < 2 THEN 0
  ELSE LET cmd == split(s[k], 1)[1]
       IN Depth(s, k - 2) + (IF cmd = <<C(">")>> THEN 1 ELSE IF cmd = <<C("<")>> THEN -1 ELSE 0)

\* C10: unpack succeeds only when a '<' record brought the depth back to 0;
\* it leaves the loop at the first such record and reads one more blob, the
\* trailer; blobs after the trailer change nothing; when the loop is left
\* with a depth above 0 there is no blob left and the run fails.
EndsAtDepthZero ==
  /\ Succeeded =>
       /\ u.level = 0 /\ u.v.stack = <<>>
       /\ u.pos >= 4
       /\ split(in_file[u.pos - 2], 1)[1] = <<C("<")>>
       /\ Depth(in_file, u.pos - 2) = 0
       /\ \A k \in 2..(u.pos - 4) : k % 2 = 0 => Depth(in_file, k) > 0
       /\ u.printed = in_file[u.pos]
  /\ (phase = "unpack" /\ u.pc = "trailer" /\ u.level > 0) => AtEOF(u, in_file)
  /\ (Finished /\ tamper.kind = "extend") =>
       /\ u = Intact.u
       /\ fs = Intact.fs
       /\ u.pos <= Len(stream)

\* A run that succeeded on a stream with a blob after its trailer.
EndsAtDepthZeroWitness == Succeeded /\ tamper.kind = "extend" /\ NodeCount(fs, Src) > 0

\* The failures of a read at the end of the input.
EOFErrors ==
  {"Expected DFO header, got EOF", "Expected contents, got EOF",
   "Expected root checksum, got EOF"}

\* C11: unpack of a strict prefix of a stream written by pack never succeeds:
\* it ends with an error, which is a read at the end of the input unless the
\* whole stream fails with that error before the cut.
TruncationFatal ==
  (Finished /\ tamper.kind = "truncate") =>
     /\ u.outcome # "ok"
     /\ u.outcome \in EOFErrors \cup {Intact.u.outcome}
     /\ Len(in_file) < Len(stream) /\ in_file = SubSeq(stream, 1, Len(in_file))

\* A finished run on a stream cut inside a directory, after files were made.
TruncationFatalWitness ==
  /\ Finished /\ tamper.kind = "truncate"
  /\ u.outcome \in EOFErrors
  /\ u.level > 0
  /\ TreeView(fs, Dest) # TreeView(Before(fs), Dest)

\* C12: an op record without a space ends the run with 'Invalid op record'
\* as soon as it is read: the blob after it is not read, and the step
\* changes neither the file system nor the verifier nor the working
\* directory; when it is the first record after the header, the destination
\* holds nothing.
OpWithoutSpace ==
  /\ [][(phase = "unpack" /\ u.pc = "loop" /\ Meets(u, in_file) = "op") =>
         /\ Len(split(in_file[u.pos + 1], 1)) = 1
         /\ u'.pc = "done" /\ u'.outcome = "Invalid op record"
         /\ u'.pos = u.pos + 1
         /\ fs' = fs
         /\ u'.v = u.v /\ u'.cwd = u.cwd /\ u'.level = u.level]_vars
  /\ [](Finished /\ u.outcome = "Invalid op record" /\ u.pos = 2 =>
          DOMAIN TreeView(fs, Dest) = {})

\* A run that met an op record without a space inside a directory, with a
\* data blob after it.
OpWithoutSpaceWitness ==
  /\ Finished /\ u.outcome = "Invalid op record"
  /\ u.pos > 2 /\ u.pos < Len(in_file)
  /\ u.level > 0

(***************************************************************************)
(* Unpack reads its standard input, which need not come from pack: streams *)
(* of well-formed records put together by hand, fed to an unpack whose     *)
(* destination may hold a file from before.                                *)
(***************************************************************************)
MaxRecords == 3

NameA == <<C("a")>>

NameB == <<C("b")>>

PushNames == { Dot, DotDot, NameA }

PopNames == { Dot, NameA }

FileNames == { NameB }

LinkNames == { NameA, NameB }

ForgedTargets == { NameB }

ExecFlags == { "x", "-" }

TypeFlags == { "F", "L", "D" }

\* The file systems unpack starts in: no destination yet, or a destination
\* with a regular file b that its owner alone may execute, or with a regular
\* file a that everyone may execute.
OldFile(name, mode) ==
  (<<>> :> Node("D", <<>>, NewDirMode)) @@ (Dest :> Node("D", <<>>, NewDirMode))
    @@ (Append(Dest, name) :> Node("F", <<C("o")>>, mode))

Worlds ==
  { (<<>> :> Node("D", <<>>, NewDirMode)),
    OldFile(NameB, {S_IWUSR, S_IXUSR}),
    OldFile(NameA, {S_IWUSR} \cup exec_mask) }

\* The entries streamed so far for each directory that is open after the
\* records of s up to op record k: a '>' opens a directory, 'F' and 'L' add
\* an entry to the innermost open one, a '<' closes it and adds it to the
\* one around it.
RECURSIVE Collected(_, _)
Collected(s, k) ==
  IF k < 2 THEN <<>>
  ELSE LET open == Collected(s, k - 2)
           fields == split(s[k], 1)
           cmd == fields[1][1].c
           entry == [type |-> IF cmd = "<" THEN "D" ELSE cmd, name |-> fields[2],
                     checksum |-> hexdigest(s[k + 1])]
           rest == SubSeq(open, 1, Len(open) - 1)
       IN IF cmd = ">" THEN Append(open, <<>>)
          ELSE IF open = <<>> THEN open
          ELSE IF cmd # "<" THEN [open EXCEPT ![Len(open)] = Append(@, entry)]
          ELSE IF rest = <<>> THEN rest
          ELSE [rest EXCEPT ![Len(rest)] = Append(@, entry)]

\* The records of a stream without its trailer, and whether its last record
\* closed the outermost directory.
Records(s) == (Len(s) - 1) \div 2

Closed(s) ==
  /\ Records(s) > 0
  /\ split(s[Len(s) - 1], 1)[1] = <<C("<")>>
  /\ Collected(s, Len(s) - 1) = <<>>

\* The directory objects that list the given entries in their order with
\* their checksums, under any exec flag and any type.
RECURSIVE Manifests(_)
Manifests(entries) ==
  IF entries = <<>> THEN { <<>> }
  ELSE { ManifestLine(p, t, Head(entries).checksum, Head(entries).name)
           \o <<C("\n")>> \o rest :
         p \in ExecFlags, t \in TypeFlags, rest \in Manifests(Tail(entries)) }

\* The entries with the checksum of other contents.
Stale(entries) ==
  [i \in DOMAIN entries |-> [entries[i] EXCEPT !.checksum = hexdigest(<<C("o")>>)]]

\* The directory objects a '<' record may carry: those of the entries of
\* the directory it closes, the same with other checksums, and the empty
\* one.
PopManifests(s) ==
  LET open == Collected(s, Len(s) - 1)
  IN IF open = <<>> THEN { <<>> }
     ELSE Manifests(open[Len(open)]) \cup Manifests(Stale(open[Len(open)])) \cup { <<>> }

Forged == [kind |-> "forged", idx |-> 0]

InitForged ==
  /\ fs \in Worlds
  /\ phase = "forge"
  /\ stream = <<>>
  /\ prev = <<>>
  /\ edit = NoEdit
  /\ in_file = _WriteChunk(<<>>, Magic)
  /\ tamper = Forged
  /\ u = Idle

Forging == phase = "forge" /\ Records(in_file) < MaxRecords /\ ~Closed(in_file)

Forge(cmd, name, contents) ==
  /\ in_file' = _WriteChunk(_WritePair(in_file, cmd, name), contents)
  /\ UNCHANGED <<fs, phase, stream, prev, edit, tamper, u>>

ForgePush == Forging /\ \E name \in PushNames : Forge(">", name, <<>>)

ForgeFile ==
  Forging /\ \E name \in FileNames, contents \in FileContents : Forge("F", name, contents)

ForgeLink ==
  Forging /\ \E name \in LinkNames, target \in ForgedTargets : Forge("L", name, target)

ForgePop ==
  Forging /\ \E name \in PopNames, dir_obj \in PopManifests(in_file) : Forge("<", name, dir_obj)

\* The stream gets its trailer, the checksum of the directory object of its
\* last '<' record when that closed the outermost directory, and reaches
\* unpack.
ForgeEnd ==
  /\ phase = "forge"
  /\ in_file' = _WriteChunk(in_file, IF Closed(in_file) THEN hexdigest(in_file[Len(in_file)])
                                     ELSE hexdigest(<<>>))
  /\ phase' = "fed"
  /\ UNCHANGED <<fs, stream, prev, edit, tamper, u>>

NextForged ==
  \/ ForgePush \/ ForgeFile \/ ForgeLink \/ ForgePop \/ ForgeEnd
  \/ UnpackBegin
  \/ LoopBadOp \/ LoopPush \/ LoopPop \/ LoopFile \/ LoopLink
  \/ ReadTrailer

SpecForged == InitForged /\ [][NextForged]_vars

\* The names of the lines of a well formed manifest with exec field x.
XNames(blob) ==
  { split(splitlines(blob)[i], 3)[4] :
      i \in { j \in 1..Len(splitlines(blob)) : split(splitlines(blob)[j], 3)[1] = <<C("x")>> } }

\* name is a regular file in directory d of file system f.
IsFile(f, d, name) ==
  name \notin {<<>>, Dot, DotDot} /\ Exists(f, Append(d, name)) /\ f[Append(d, name)].kind = "F"

\* C13 as stated: a pop leaves the permission bits of a file of an x line
\* as they were when the owner's execute bit was set already.
OwnerExecNoOp ==
  [][(PopStep /\ WellFormed(in_file[u.pos + 2])) =>
       \A name \in XNames(in_file[u.pos + 2]) :
         (IsFile(fs, u.cwd, name) /\ S_IXUSR \in fs[Append(u.cwd, name)].mode) =>
            fs'[Append(u.cwd, name)].mode = fs[Append(u.cwd, name)].mode]_vars

\* C13: a pop whose x lines all name regular files adds the three execute
\* bits (owner, group, other) to each of these files and changes nothing
\* else; it is a no-op exactly when every such file had all three bits.
ExecMaskNoOp ==
  [][(/\ PopStep /\ WellFormed(in_file[u.pos + 2])
      /\ \A name \in XNames(in_file[u.pos + 2]) : IsFile(fs, u.cwd, name)) =>
       LET xpaths == { Append(u.cwd, name) : name \in XNames(in_file[u.pos + 2]) }
       IN /\ fs' = [q \in DOMAIN fs |->
                      IF q \in xpaths THEN [fs[q] EXCEPT !.mode = @ \cup exec_mask]
                      ELSE fs[q]]
          /\ (fs' = fs) <=> (\A q \in xpaths : exec_mask \subseteq fs[q].mode)]_vars

\* The last record read was a '<' and it was passed.
PopPassed ==
  /\ phase = "unpack" /\ u.pc \in {"loop", "trailer"}
  /\ u.pos >= 3 /\ u.pos % 2 = 1
  /\ split(in_file[u.pos - 1], 1)[1] = <<C("<")>>

\* A pop was passed whose manifest has an x line for the file a, which was in
\* the destination before the run with all three execute bits.
ExecMaskNoOpWitness ==
  /\ PopPassed /\ u.cwd = Dest
  /\ NameA \in XNames(in_file[u.pos])
  /\ IsFile(fs, Dest, NameA)
  /\ exec_mask \subseteq fs[Append(Dest, NameA)].mode

\* The RuntimeErrors of _UnpackTree and Verifier.Pop.
RuntimeErrors ==
  EOFErrors \cup
  {"Expected 'dfo--' header", "Invalid op record", "Invalid command",
   "Error making symlink", "Invalid directory entry", "Invalid exec bit",
   "Stream integrity error"}

\* C14: an 'F', 'L' or '<' record right after the header, at depth 0, ends
\* the run with a RuntimeError, and its step writes no file and no symlink.
FirstRecordGuarded ==
  [][(/\ phase = "unpack" /\ u.pc = "loop" /\ u.pos = 1
      /\ Meets(u, in_file) \in {"F", "L", "<"}) =>
       /\ u'.pc = "done" /\ u'.outcome \in RuntimeErrors
       /\ fs' = fs]_vars

\* The step of the loop that handles an 'L' record without an error.
LinkStep == phase = "unpack" /\ u.pc = "loop" /\ Meets(u, in_file) = "L" /\ u'.pc # "done"

\* The (name, checksum) pair the verifier collected last.
LastCollected(v) == v.current[Len(v.current)]

\* C15 as stated: after an 'L' record handled without error the entry of
\* its name is a symlink to its data blob, whatever was there before, and
\* the digest of the data blob is recorded for the name.
SymlinkMaterialised ==
  [][LinkStep =>
       LET name == split(in_file[u.pos + 1], 1)[2]
           contents == in_file[u.pos + 2]
           p == Lookup(u.cwd, name)
       IN /\ Exists(fs', p) /\ fs'[p].kind = "L" /\ fs'[p].data = contents
          /\ LastCollected(u'.v) = <<name, hexdigest(contents)>>]_vars

\* C15: after an 'L' record handled without error the digest of its data
\* blob is recorded for its name and an entry of that name exists; where
\* there was none it is a new symlink to the data blob, and where there was
\* one the file system is as before, the old entry in place.
SymlinkUnlessExists ==
  [][LinkStep =>
       LET name == split(in_file[u.pos + 1], 1)[2]
           contents == in_file[u.pos + 2]
           p == Lookup(u.cwd, name)
       IN /\ LastCollected(u'.v) = <<name, hexdigest(contents)>>
          /\ Exists(fs', p)
          /\ IF Exists(fs, p) THEN fs' = fs
             ELSE fs' = Put(fs, p, Node("L", contents, LinkMode))]_vars

\* An 'L' record was handled without error and the entry of its name is the
\* regular file that was there before.
SymlinkUnlessExistsWitness ==
  /\ phase = "unpack" /\ u.pc = "loop" /\ u.pos >= 3 /\ u.pos % 2 = 1
  /\ split(in_file[u.pos - 1], 1)[1] = <<C("L")>>
  /\ LastCollected(u.v) = <<split(in_file[u.pos - 1], 1)[2], hexdigest(in_file[u.pos])>>
  /\ fs[Lookup(u.cwd, split(in_file[u.pos - 1], 1)[2])].kind = "F"

\* C16: a step of the loop changes the mode of an entry that was there only
\* when it handles a '<' record, and then only of the entries of the
\* working directory named by the x lines of its manifest, to which it adds
\* the execute bits.
PermissionOrdering ==
  [][(phase = "unpack" /\ u.pc = "loop") =>
       \A p \in DOMAIN fs :
         (p \in DOMAIN fs' /\ fs'[p].mode # fs[p].mode) =>
            /\ Meets(u, in_file) = "<"
            /\ \E name \in XNames(in_file[u.pos + 2]) : p = Lookup(u.cwd, name)
            /\ fs'[p].mode = fs[p].mode \cup exec_mask]_vars

\* The step of the loop that handles a record with command cmd and does not
\* end the run.
Handled(cmd) ==
  phase = "unpack" /\ u.pc = "loop" /\ Meets(u, in_file) = cmd /\ u'.pc # "done"

\* C17: whenever unpack stands between two records the verifier's stack is
\* as long as level, level is not negative, and current is the list on top
\* of a stack that is not empty; a '>' puts one new empty list on the stack,
\* a '<' that is passed takes one off (and adds the closed directory to the
\* list below), 'F' and 'L' add to the top list only, and a record that ends
\* the run leaves verifier and level alone.
StackInvariant ==
  /\ [](phase = "unpack" =>
          /\ Len(u.v.stack) = u.level /\ u.level >= 0
          /\ u.v.stack # <<>> =>
               ~u.v.current_is_None /\ u.v.current = u.v.stack[Len(u.v.stack)])
  /\ [][Handled(">") =>
          /\ u'.v.stack = Append(u.v.stack, <<>>)
          /\ u'.v.current = <<>>
          /\ u'.level = u.level + 1]_vars
  /\ [][Handled("<") =>
          /\ Len(u'.v.stack) = Len(u.v.stack) - 1
          /\ u'.level = u.level - 1
          /\ \A i \in 1..(Len(u'.v.stack) - 1) : u'.v.stack[i] = u.v.stack[i]
          /\ u'.v.stack # <<>> =>
               u'.v.current = Append(u.v.stack[Len(u'.v.stack)],
                                     <<split(in_file[u.pos + 1], 1)[2],
                                       hexdigest(in_file[u.pos + 2])>>)]_vars
  /\ [][(Handled("F") \/ Handled("L")) =>
          /\ Len(u'.v.stack) = Len(u.v.stack) /\ u'.level = u.level
          /\ \A i \in 1..(Len(u.v.stack) - 1) : u'.v.stack[i] = u.v.stack[i]]_vars
  /\ [][(phase = "unpack" /\ u.pc = "loop" /\ u'.pc = "done") =>
          u'.v = u.v /\ u'.level = u.level]_vars

\* A directory inside another one was closed: one list is left on the
\* stack, with the entry of the closed directory.
StackInvariantWitness ==
  /\ PopPassed /\ u.level = 1
  /\ Len(u.v.stack) = 1 /\ Len(u.v.current) = 1
  /\ u.v.current = u.v.stack[1]

\* The names of the '>' records of s up to op record k that no '<' record
\* has closed yet, outermost first.
RECURSIVE OpenDirs(_, _)
OpenDirs(s, k) ==
  IF k < 2 THEN <<>>
  ELSE LET open == OpenDirs(s, k - 2)
           fields == split(s[k], 1)
       IN IF fields[1] = <<C(">")>> THEN Append(open, fields[2])
          ELSE IF fields[1] = <<C("<")>> /\ open # <<>> THEN SubSeq(open, 1, Len(open) - 1)
          ELSE open

\* The destination directory followed by the names of the open directories
\* other than '.'.
WorkingLocation(s, k) == Dest \o SelectSeq(OpenDirs(s, k), LAMBDA name : name # Dot)

\* Every entry that a step of the loop creates or changes lies in the
\* destination directory.
WritesInside ==
  [][(phase = "unpack" /\ u.pc = "loop") =>
       \A p \in DOMAIN fs' :
         (p \notin DOMAIN fs \/ fs'[p] # fs[p]) => (IsPrefix(Dest, p) /\ p # Dest)]_vars

\* C18: between two records the working directory is the destination
\* followed by the names of the open directories other than '.', and every
\* entry that a step of the loop creates or changes lies in the destination.
StaysInside ==
  /\ [](phase = "unpack" /\ u.pc = "loop" => u.cwd = WorkingLocation(in_file, u.pos - 1))
  /\ WritesInside

\* The '<' record at op record k of s carries the name of the '>' record
\* it closes.
ClosesByName(s, k) ==
  LET open == OpenDirs(s, k - 2)
  IN open # <<>> /\ open[Len(open)] = split(s[k], 1)[2]

\* C19: unpack succeeds only when every '<' record it read carries the name
\* of the '>' record it closes.
NamesAgree ==
  Succeeded =>
    \A k \in 2..(u.pos - 2) :
      (k % 2 = 0 /\ split(in_file[k], 1)[1] = <<C("<")>>) => ClosesByName(in_file, k)

\* The op records of '<' records that unpack has read.
PopsRead == { k \in 2..(u.pos - 2) : k % 2 = 0 /\ split(in_file[k], 1)[1] = <<C("<")>> }

\* The entries streamed for the directory that the '<' record at k closes.
Streamed(s, k) == LET open == Collected(s, k - 2) IN open[Len(open)]

\* The type fields of the lines of a well formed manifest.
TypesOf(lines) == [i \in DOMAIN lines |-> split(lines[i], 3)[2]]

\* C20 as stated: after success the type field of every line of every
\* manifest read is the kind of record the entry of that line was streamed
\* by.
TypesAgree ==
  Succeeded =>
    \A k \in PopsRead :
      TypesOf(splitlines(in_file[k + 1]))
        = [i \in DOMAIN Streamed(in_file, k) |-> <<C(Streamed(in_file, k)[i].type)>>]

\* C20: after success every manifest read lists the entries streamed for
\* its directory, in their order, each line with the name of the entry and
\* the digest of its data blob; the type field of a line is bound to nothing.
NamesAndChecksumsAgree ==
  Succeeded =>
    \A k \in PopsRead :
      /\ Collected(in_file, k - 2) # <<>>
      /\ WellFormed(in_file[k + 1])
      /\ PairsOf(splitlines(in_file[k + 1]))
           = [i \in DOMAIN Streamed(in_file, k) |->
                <<Streamed(in_file, k)[i].name, Streamed(in_file, k)[i].checksum>>]

\* A run that succeeded on a manifest with a line of type L for an entry
\* streamed by an 'F' record, its checksum matching and the trailer the
\* checksum of the manifest.
NamesAndChecksumsAgreeWitness ==
  /\ Succeeded
  /\ u.printed = hexdigest(in_file[u.pos - 1])
  /\ \E k \in PopsRead :
       /\ Len(Streamed(in_file, k)) = 1
       /\ Streamed(in_file, k)[1].type = "F"
       /\ TypesOf(splitlines(in_file[k + 1])) = << <<C("L")>> >>
       /\ PairsOf(splitlines(in_file[k + 1]))
            = << <<Streamed(in_file, k)[1].name, hexdigest(in_file[k - 1])>> >>

====
